---- MODULE Spec2Model ----
(***************************************************************************)
(* Golf score tracker (08-golf-score-tracker): the Scorecard domain model  *)
(* and its validators, as a state machine.  A caller constructs a card     *)
(* with Scorecard::new and then calls record_score any number of times.    *)
(***************************************************************************)
EXTENDS Integers, FiniteSets, Sequences, TLC

\* ------------------------------------------------------------ bounds ----
\* Largest max_holes a caller passes to Scorecard::new in this model.
MaxHoles == 2
\* Largest number of scorecards in the slice given to from_scorecards.
MaxCards == 2
\* Largest number of completed rounds in a history of SpecBulk.
MaxBulkCards == 243
\* Largest hole count a caller passes to the CreateScorecard command.
MaxCourseHoles == 19

\* ------------------------------------------------- program constants ----
MinPar == 3
MaxPar == 5
MinStrokes == 1
MaxStrokes == 15
U8Mod == 256
U16Mod == 65536
I16Half == 32768
I8Half == 128
BulkHoles == 18

\* ------------------------------------------------------------ inputs ----
PlayerIds == {"p1", "p2"}
RoundIds == {"r1", "r2"}
MaxHolesInputs == 0..MaxHoles
HoleInputs == 0..(MaxHoles + 1)
ParInputs == {2, 3, 4, 5, 6}
StrokeInputs == {0, 1, 2, 15, 16}
\* every BTreeMap<u8, u8> over the input holes and pars (partial layouts too)
ParLayouts == UNION {[D -> ParInputs] : D \in SUBSET HoleInputs}
\* the statistics caller: complete layouts for 0, 1 and 2 holes, strokes
\* that give every class from eagle to double bogey, one player
StatLayouts == {<<>>, <<3>>, <<5>>, <<3, 5>>}
StatHoles == {1, 2}
StatStrokes == {3, 4, 5}
StatPlayerIds == {"p1"}
\* the round ids Uuid::new_v4() hands out, in order
RoundIdSeq == <<"r1", "r2", "r3", "r4">>
\* long histories: 18-hole rounds, every hole of a round at one stroke
\* count; histories of 1, 2 and MaxBulkCards completed rounds
BulkPars == {5}
BulkStrokes == {1, 15}
BulkLengths == {1, 2, MaxBulkCards}
\* the repository caller: complete layouts of 1 and 2 holes, one stroke
\* count, so that empty, partial and complete cards are all saved
RepoLayouts == {<<4>>, <<3, 5>>}
\* the round ids of the repository caller; "p1" is the id of a player too
\* (round_id and Player::id are public fields of the one type Uuid)
RepoRoundIds == {"r1", "p1"}
RepoHoles == {1, 2}
RepoStrokes == {4}
\* player names as typed, character by character
NameInputs == {<<>>, <<" ">>, <<"A">>, <<" ", "A", " ">>}
\* the CreateScorecard command: the course names of the catalog, the
\* default "standard" and the "masters" of the documentation; hole counts
\* below, at and above the 18 holes of a named course
CatalogNames ==
    {"Augusta_National", "Pebble_Beach", "St_Andrews",
     "Torrey_Pines_North", "Torrey_Pines_South"}
CourseNames == CatalogNames \cup {"standard", "masters"}
CourseHoleInputs == {0, 2, 9, BulkHoles, MaxCourseHoles}
CourseStrokes == {4}

\* ----------------------------------------------------------- helpers ----
\* Option<T>: None is the empty tuple, Some(v) the one-element tuple.
None == <<>>
Some(v) == <<v>>

\* Result<()> values of src/error.rs
Ok == [kind |-> "Ok"]
InvalidHole(hole, max_holes) ==
    [kind |-> "InvalidHole", hole |-> hole, max_holes |-> max_holes]
InvalidPar(par) == [kind |-> "InvalidPar", par |-> par]
InvalidScore(score, hole, par) ==
    [kind |-> "InvalidScore", score |-> score, hole |-> hole, par |-> par]
\* the panic raised by Option::expect on None
Panic == [kind |-> "Panic"]
\* Result<T> values of the repository
OkValue(v) == [kind |-> "Ok", value |-> v]
SerializationError == [kind |-> "SerializationError"]
IoError == [kind |-> "IoError"]

MinOf(S) == CHOOSE x \in S : \A y \in S : x <= y

\* insert, broken: key and value swapped (the map is keyed by strokes)
insert_swapped(m, k, v) ==
    [x \in (DOMAIN m) \cup {v} |-> IF x = v THEN k ELSE m[x]]

\* BTreeMap::insert: insert or overwrite
insert(m, k, v) == [x \in (DOMAIN m) \cup {k} |-> IF x = k THEN v ELSE m[x]]

\* iter().map(u16::from).sum() over the values of a map, in u16
RECURSIVE sum_u16(_, _)
sum_u16(m, keys) ==
    IF keys = {} THEN 0
    ELSE LET k == MinOf(keys)
         IN  (m[k] + sum_u16(m, keys \ {k})) % U16Mod

\* `x as i16` for a u16 x
as_i16(x) == IF x >= I16Half THEN x - U16Mod ELSE x

\* -------------------------------------------------------- validators ----
validate_hole_number(hole, max_holes) ==
    IF hole = 0 \/ hole > max_holes
    THEN InvalidHole(hole, max_holes)
    ELSE Ok

\* validate_par, broken: the upper bound is off by one
validate_par_upto6(par) ==
    IF ~(par >= MinPar /\ par <= MaxPar + 1)
    THEN InvalidPar(par)
    ELSE Ok

validate_par(par) ==
    IF ~(par = MinPar \/ par = 4 \/ par = MaxPar)
    THEN InvalidPar(par)
    ELSE Ok

\* validate_score, broken: the lower bound is missing
validate_score_no_lower(strokes, hole, par) ==
    IF ~(strokes <= MaxStrokes)
    THEN InvalidScore(strokes, hole, par)
    ELSE Ok

validate_score(strokes, hole, par) ==
    IF ~(strokes >= MinStrokes /\ strokes <= MaxStrokes)
    THEN InvalidScore(strokes, hole, par)
    ELSE Ok

\* --------------------------------------------------------- Scorecard ----
\* the `for (&hole, &to_par) in &pars` loop of Scorecard::new: ascending
\* key order, hole checked before par, first failure returned
RECURSIVE validate_layout(_, _, _)
validate_layout(pars, keys, max_holes) ==
    IF keys = {} THEN Ok
    ELSE LET hole == MinOf(keys)
             r1 == validate_hole_number(hole, max_holes)
             r2 == validate_par(pars[hole])
         IN  IF r1.kind # "Ok" THEN r1
             ELSE IF r2.kind # "Ok" THEN r2
             ELSE validate_layout(pars, keys \ {hole}, max_holes)

\* Scorecard::new, broken: the card starts with a score on every par hole
Scorecard_new_prefilled(round_id, player_id, max_holes, pars) ==
    LET r == validate_layout(pars, DOMAIN pars, max_holes)
    IN  IF r.kind # "Ok"
        THEN [result |-> r, card |-> None]
        ELSE [result |-> Ok,
              card |-> Some([round_id |-> round_id,
                             player_id |-> player_id,
                             max_holes |-> max_holes,
                             scores |-> pars,
                             pars |-> pars])]

\* Scorecard::new; round_id is the value Uuid::new_v4() produced.
\* Returns the Result and, when Ok, the constructed card.
Scorecard_new(round_id, player_id, max_holes, pars) ==
    LET r == validate_layout(pars, DOMAIN pars, max_holes)
    IN  IF r.kind # "Ok"
        THEN [result |-> r, card |-> None]
        ELSE [result |-> Ok,
              card |-> Some([round_id |-> round_id,
                             player_id |-> player_id,
                             max_holes |-> max_holes,
                             scores |-> <<>>,
                             pars |-> pars])]

get_par(self, hole) ==
    IF hole \in DOMAIN self.pars THEN Some(self.pars[hole]) ELSE None

get_score(self, hole) ==
    IF hole \in DOMAIN self.scores THEN Some(self.scores[hole]) ELSE None

\* is_complete, broken: compares against the number of pars
is_complete_by_pars(self) ==
    (Cardinality(DOMAIN self.scores) % U8Mod) =
        (Cardinality(DOMAIN self.pars) % U8Mod)

is_complete(self) ==
    (Cardinality(DOMAIN self.scores) % U8Mod) = self.max_holes

\* total_strokes, broken: not gated behind completeness
total_strokes_ungated(self) ==
    Some(sum_u16(self.scores, DOMAIN self.scores))

total_strokes(self) ==
    IF is_complete(self)
    THEN Some(sum_u16(self.scores, DOMAIN self.scores))
    ELSE None

\* score_relative_to_par, broken: operands of the subtraction swapped
score_relative_to_par_swapped(self) ==
    IF ~is_complete(self) THEN None
    ELSE LET total_par == sum_u16(self.pars, DOMAIN self.pars)
             total == sum_u16(self.scores, DOMAIN self.scores)
         IN  Some(as_i16(total_par) - as_i16(total))

score_relative_to_par(self) ==
    IF ~is_complete(self) THEN None
    ELSE LET total_par == sum_u16(self.pars, DOMAIN self.pars)
             total == sum_u16(self.scores, DOMAIN self.scores)
         IN  Some(as_i16(total) - as_i16(total_par))

\* record_score, broken: the score is stored before it is validated
record_score_store_first(self, hole, strokes) ==
    LET r1 == validate_hole_number(hole, self.max_holes)
    IN  IF r1.kind # "Ok" THEN [result |-> r1, self |-> self]
        ELSE IF get_par(self, hole) = None
        THEN [result |-> Panic, self |-> self]
        ELSE LET par == self.pars[hole]
                 r2 == validate_score(strokes, hole, par)
                 stored == [self EXCEPT !.scores = insert(@, hole, strokes)]
             IN  [result |-> r2, self |-> stored]

\* record_score, broken: strokes are added to the score already stored
record_score_adding(self, hole, strokes) ==
    LET r1 == validate_hole_number(hole, self.max_holes)
    IN  IF r1.kind # "Ok" THEN [result |-> r1, self |-> self]
        ELSE IF get_par(self, hole) = None
        THEN [result |-> Panic, self |-> self]
        ELSE LET par == self.pars[hole]
                 r2 == validate_score(strokes, hole, par)
                 old == IF hole \in DOMAIN self.scores
                        THEN self.scores[hole] ELSE 0
             IN  IF r2.kind # "Ok" THEN [result |-> r2, self |-> self]
                 ELSE [result |-> Ok,
                       self |-> [self EXCEPT
                                   !.scores = insert(@, hole,
                                       (old + strokes) % U8Mod)]]

\* record_score, broken: an existing score is kept (entry().or_insert)
record_score_keep_first(self, hole, strokes) ==
    LET r1 == validate_hole_number(hole, self.max_holes)
    IN  IF r1.kind # "Ok" THEN [result |-> r1, self |-> self]
        ELSE IF get_par(self, hole) = None
        THEN [result |-> Panic, self |-> self]
        ELSE LET par == self.pars[hole]
                 r2 == validate_score(strokes, hole, par)
             IN  IF r2.kind # "Ok" THEN [result |-> r2, self |-> self]
                 ELSE IF hole \in DOMAIN self.scores
                 THEN [result |-> Ok, self |-> self]
                 ELSE [result |-> Ok,
                       self |-> [self EXCEPT
                                   !.scores = insert(@, hole, strokes)]]

\* record_score, broken: the strokes are inserted into the par map
record_score_into_pars(self, hole, strokes) ==
    LET r1 == validate_hole_number(hole, self.max_holes)
    IN  IF r1.kind # "Ok" THEN [result |-> r1, self |-> self]
        ELSE IF get_par(self, hole) = None
        THEN [result |-> Panic, self |-> self]
        ELSE LET par == self.pars[hole]
                 r2 == validate_score(strokes, hole, par)
             IN  IF r2.kind # "Ok" THEN [result |-> r2, self |-> self]
                 ELSE [result |-> Ok,
                       self |-> [self EXCEPT
                                   !.scores = insert(@, hole, strokes),
                                   !.pars = insert(@, hole, strokes)]]

\* record_score, broken: the strokes are validated before the hole
record_score_score_first(self, hole, strokes) ==
    LET par == IF hole \in DOMAIN self.pars THEN self.pars[hole] ELSE 0
        r2 == validate_score(strokes, hole, par)
    IN  IF r2.kind # "Ok" THEN [result |-> r2, self |-> self]
        ELSE LET r1 == validate_hole_number(hole, self.max_holes)
             IN  IF r1.kind # "Ok" THEN [result |-> r1, self |-> self]
                 ELSE IF get_par(self, hole) = None
                 THEN [result |-> Panic, self |-> self]
                 ELSE [result |-> Ok,
                       self |-> [self EXCEPT
                                   !.scores = insert(@, hole, strokes)]]

\* Scorecard::record_score on `self`: the Result and the card afterwards
record_score(self, hole, strokes) ==
    LET r1 == validate_hole_number(hole, self.max_holes)
    IN  IF r1.kind # "Ok" THEN [result |-> r1, self |-> self]
        ELSE IF get_par(self, hole) = None
        THEN [result |-> Panic, self |-> self]
        ELSE LET par == self.pars[hole]
                 r2 == validate_score(strokes, hole, par)
             IN  IF r2.kind # "Ok" THEN [result |-> r2, self |-> self]
                 ELSE [result |-> Ok,
                       self |-> [self EXCEPT
                                   !.scores = insert(@, hole, strokes)]]

\* -------------------------------------------------- PlayerStatistics ----
\* `x as i8` for a u8 x
as_i8(x) == IF x >= I8Half THEN x - U8Mod ELSE x

RECURSIVE gcd(_, _)
gcd(a, b) == IF b = 0 THEN a ELSE gcd(b, a % b)

\* `a as f64 / b as f64` for integers a >= 0, b > 0 far below 2^53: the
\* quotient, held as the fraction in lowest terms (equal quotients are equal
\* values)
f64_div(a, b) ==
    LET g == gcd(a, b)
    IN  [num |-> a \div g, den |-> b \div g]

\* overflow-checks setting of the build: on in debug, off in release
Builds == {"debug", "release"}

\* one u16 `+` of Iterator::sum: the wrapped value, and whether it overflowed
add_u16(acc, x) ==
    [value |-> (acc + x) % U16Mod, overflow |-> (acc + x) >= U16Mod]

\* Iterator::sum::<u16>() over xs from the accumulator acc, left to right
RECURSIVE sum_totals(_, _)
sum_totals(xs, acc) ==
    IF xs = <<>> THEN acc
    ELSE LET r == add_u16(acc.value, Head(xs))
         IN  sum_totals(Tail(xs), [value |-> r.value,
                                   overflow |-> acc.overflow \/ r.overflow])

\* completed_scorecards, broken: the is_complete filter is missing
completed_scorecards_unfiltered(scorecards) == scorecards

\* scorecards.iter().filter(|x| x.is_complete()).collect()
completed_scorecards(scorecards) == SelectSeq(scorecards, is_complete)

\* iter().filter_map(|x| x.total_strokes())
RECURSIVE filter_map_total_strokes(_)
filter_map_total_strokes(cs) ==
    IF cs = <<>> THEN <<>>
    ELSE LET t == total_strokes(Head(cs))
         IN  (IF t = None THEN <<>> ELSE <<t[1]>>)
                 \o filter_map_total_strokes(Tail(cs))

\* iter().filter_map(|x| x.score_relative_to_par()).collect()
RECURSIVE filter_map_relative(_)
filter_map_relative(cs) ==
    IF cs = <<>> THEN <<>>
    ELSE LET t == score_relative_to_par(Head(cs))
         IN  (IF t = None THEN <<>> ELSE <<t[1]>>)
                 \o filter_map_relative(Tail(cs))

\* Iterator::min, broken: the first element is returned
iter_min_first(xs) ==
    IF xs = <<>> THEN None ELSE Some(Head(xs))

\* Iterator::min
iter_min(xs) ==
    IF xs = <<>> THEN None
    ELSE Some(CHOOSE x \in {xs[i] : i \in 1..Len(xs)} :
                  \A i \in 1..Len(xs) : x <= xs[i])

\* Iterator::max, broken: the comparison is the wrong way round
iter_max_reversed(xs) ==
    IF xs = <<>> THEN None
    ELSE Some(CHOOSE x \in {xs[i] : i \in 1..Len(xs)} :
                  \A i \in 1..Len(xs) : x <= xs[i])

\* Iterator::max
iter_max(xs) ==
    IF xs = <<>> THEN None
    ELSE Some(CHOOSE x \in {xs[i] : i \in 1..Len(xs)} :
                  \A i \in 1..Len(xs) : x >= xs[i])

\* sum of the i16 values as i32; |score| <= 3825, so an i32 cannot overflow
\* below 561,000 scorecards
RECURSIVE sum_i32(_)
sum_i32(xs) == IF xs = <<>> THEN 0 ELSE Head(xs) + sum_i32(Tail(xs))

is_under_par(score) == score < 0
is_over_par(score) == score > 0

\* under-par total, broken: the filter is missing, all rounds are netted
sum_under_par_netted(relative_scores) == sum_i32(relative_scores)

\* relative_scores.iter().filter(|&&score| score < 0).map(..).sum()
sum_under_par(relative_scores) ==
    sum_i32(SelectSeq(relative_scores, is_under_par))

\* relative_scores.iter().filter(|&&score| score > 0).map(..).sum()
sum_over_par(relative_scores) ==
    sum_i32(SelectSeq(relative_scores, is_over_par))

\* the match on difference, broken: the eagle arm is ..=-3
classify_eagle_off_by_one(strokes, par) ==
    LET difference == as_i8(strokes) - as_i8(par)
    IN  IF difference <= -3 THEN "eagles"
        ELSE IF difference <= -1 THEN "birdies"
        ELSE IF difference = 0 THEN "pars"
        ELSE IF difference = 1 THEN "bogeys"
        ELSE "double_bogeys"

\* `let difference = strokes as i8 - par as i8; match difference {..}`:
\* the counter that is incremented
classify(strokes, par) ==
    LET difference == as_i8(strokes) - as_i8(par)
    IN  IF difference <= -2 THEN "eagles"
        ELSE IF difference = -1 THEN "birdies"
        ELSE IF difference = 0 THEN "pars"
        ELSE IF difference = 1 THEN "bogeys"
        ELSE "double_bogeys"

ZeroCounts ==
    [eagles |-> 0, birdies |-> 0, pars |-> 0, bogeys |-> 0,
     double_bogeys |-> 0]

\* the hole loop, broken: the range is 1..max_holes (exclusive)
RECURSIVE count_holes_exclusive(_, _, _)
count_holes_exclusive(scorecard, hole, counts) ==
    IF hole >= scorecard.max_holes THEN counts
    ELSE LET strokes == get_score(scorecard, hole)
             par == get_par(scorecard, hole)
             counted ==
                 IF strokes # None /\ par # None
                 THEN [counts EXCEPT ![classify(strokes[1], par[1])] = @ + 1]
                 ELSE counts
         IN  count_holes_exclusive(scorecard, hole + 1, counted)

\* `for hole in 1..=scorecard.max_holes { .. }` from `hole` on
RECURSIVE count_holes(_, _, _)
count_holes(scorecard, hole, counts) ==
    IF hole > scorecard.max_holes THEN counts
    ELSE LET strokes == get_score(scorecard, hole)
             par == get_par(scorecard, hole)
             counted ==
                 IF strokes # None /\ par # None
                 THEN [counts EXCEPT ![classify(strokes[1], par[1])] = @ + 1]
                 ELSE counts
         IN  count_holes(scorecard, hole + 1, counted)

\* `for scorecard in scorecards { .. }` with the counters so far
RECURSIVE count_scorecards(_, _)
count_scorecards(scorecards, counts) ==
    IF scorecards = <<>> THEN counts
    ELSE count_scorecards(Tail(scorecards),
                          count_holes(Head(scorecards), 1, counts))

calculate_hole_statistics(scorecards) ==
    count_scorecards(scorecards, ZeroCounts)

\* PlayerStatistics::from_scorecards under the given overflow-checks
\* setting: the statistics, or the panic of an overflowing u16 sum
from_scorecards(scorecards, build) ==
    LET total_rounds == Len(scorecards)
        completed == completed_scorecards(scorecards)
        completed_rounds == Len(completed)
        sum == sum_totals(filter_map_total_strokes(completed),
                          [value |-> 0, overflow |-> FALSE])
        average_score ==
            IF completed_rounds > 0
            THEN Some(f64_div(sum.value, completed_rounds))
            ELSE None
        relative_scores == filter_map_relative(completed)
        holes == calculate_hole_statistics(completed)
    IN  IF completed_rounds > 0 /\ sum.overflow /\ build = "debug"
        THEN [kind |-> "Panic"]
        ELSE [kind |-> "Stats",
              total_rounds |-> total_rounds,
              completed_rounds |-> completed_rounds,
              average_score |-> average_score,
              best_score |-> iter_min(filter_map_total_strokes(completed)),
              worst_score |-> iter_max(filter_map_total_strokes(completed)),
              total_under_par |-> sum_under_par(relative_scores),
              total_over_par |-> sum_over_par(relative_scores),
              eagles |-> holes.eagles,
              birdies |-> holes.birdies,
              pars |-> holes.pars,
              bogeys |-> holes.bogeys,
              double_bogeys |-> holes.double_bogeys]

\* ------------------------------------------------------------ courses ----
create_standard_pars(holes) ==
    [hole \in 1..holes |->
        CASE hole % 3 = 0 -> 5
          [] hole % 3 = 1 -> 4
          [] OTHER -> 3]

create_august_national_pars ==
    <<4, 5, 4, 3, 4, 3, 4, 5, 4, 4, 4, 3, 5, 4, 5, 3, 4, 4>>

create_pebble_beach_pars ==
    <<4, 5, 4, 3, 4, 5, 3, 4, 4, 4, 4, 3, 4, 5, 4, 3, 4, 5>>

create_st_andrews_pars ==
    <<4, 4, 4, 5, 3, 4, 4, 3, 5, 4, 4, 3, 4, 4, 5, 3, 4, 4>>

torrey_pines_north_course_pars ==
    <<4, 4, 3, 4, 5, 4, 4, 3, 5, 5, 4, 3, 4, 4, 3, 4, 5, 4>>

torrey_pines_south_course_pars ==
    <<4, 4, 3, 4, 5, 5, 4, 3, 5, 4, 3, 4, 5, 4, 4, 3, 4, 5>>

get_course_catalog ==
    [name \in CatalogNames |->
        CASE name = "Augusta_National" -> create_august_national_pars
          [] name = "Pebble_Beach" -> create_pebble_beach_pars
          [] name = "St_Andrews" -> create_st_andrews_pars
          [] name = "Torrey_Pines_North" -> torrey_pines_north_course_pars
          [] OTHER -> torrey_pines_south_course_pars]

get_course_pars(course_name, holes) ==
    IF course_name \in DOMAIN get_course_catalog
    THEN get_course_catalog[course_name]
    ELSE create_standard_pars(holes)

\* ------------------------------------------------------------ Player ----
\* an f64: a finite value, or an infinity
Finite(x) == [fp |-> "finite", x |-> x]
Infinite == [fp |-> "inf"]

\* handicaps a caller passes to Player::new (12.0, f64::INFINITY)
HandicapInputs == {None, Some(Finite(12)), Some(Infinite)}

Custom(message) == [kind |-> "Custom", message |-> message]

RECURSIVE trim_start(_)
trim_start(s) ==
    IF s # <<>> /\ Head(s) = " " THEN trim_start(Tail(s)) ELSE s

RECURSIVE trim_end(_)
trim_end(s) ==
    IF s # <<>> /\ s[Len(s)] = " "
    THEN trim_end(SubSeq(s, 1, Len(s) - 1))
    ELSE s

\* str::trim
trim(s) == trim_end(trim_start(s))

\* Player::new(name, handicap); id is the Uuid::new_v4() of the call
Player_new(id, name, handicap) ==
    IF trim(name) = <<>>
    THEN [result |-> Custom("Player name cannot be empty"), player |-> None]
    ELSE [result |-> Ok,
          player |-> Some([id |-> id, name |-> trim(name),
                           handicap |-> handicap])]

\* -------------------------------------------------------- serde_json ----
JNull == [json |-> "null"]
JNumber(n) == [json |-> "number", n |-> n]
JString(s) == [json |-> "string", s |-> s]

\* a u8 map key as its decimal digits, most significant first
RECURSIVE u8_to_key(_)
u8_to_key(n) ==
    IF n < 10 THEN <<n>> ELSE Append(u8_to_key(n \div 10), n % 10)

\* the u8 a key of decimal digits parses to
RECURSIVE key_to_u8(_)
key_to_u8(k) ==
    IF Len(k) = 1 THEN k[1]
    ELSE 10 * key_to_u8(SubSeq(k, 1, Len(k) - 1)) + k[Len(k)]

\* Serialize for BTreeMap<u8, u8>: an object keyed by the decimal keys
map_to_json(m) ==
    [json |-> "object",
     entries |-> [k \in {u8_to_key(h) : h \in DOMAIN m} |->
                     JNumber(m[key_to_u8(k)])]]

\* Deserialize for BTreeMap<u8, u8>
map_from_json(doc) ==
    [h \in {key_to_u8(k) : k \in DOMAIN doc.entries} |->
        doc.entries[u8_to_key(h)].n]

\* Serialize for f64: a number when finite, null otherwise
f64_to_json(v) == IF v.fp = "finite" THEN JNumber(v.x) ELSE JNull

\* Serialize for Option<f64>: None is null
option_f64_to_json(o) == IF o = None THEN JNull ELSE f64_to_json(o[1])

\* Deserialize for Option<f64>: null is None
option_f64_from_json(doc) ==
    IF doc.json = "null" THEN None ELSE Some(Finite(doc.n))

\* serde_json::to_string_pretty(scorecard)
scorecard_to_json(scorecard) ==
    [json |-> "object",
     round_id |-> JString(scorecard.round_id),
     player_id |-> JString(scorecard.player_id),
     max_holes |-> JNumber(scorecard.max_holes),
     scores |-> map_to_json(scorecard.scores),
     pars |-> map_to_json(scorecard.pars)]

\* serde_json::from_str::<Scorecard>(&json)
scorecard_from_json(doc) ==
    [round_id |-> doc.round_id.s,
     player_id |-> doc.player_id.s,
     max_holes |-> doc.max_holes.n,
     scores |-> map_from_json(doc.scores),
     pars |-> map_from_json(doc.pars)]

\* serde_json::to_string_pretty(player)
player_to_json(player) ==
    [json |-> "object",
     id |-> JString(player.id),
     name |-> JString(player.name),
     handicap |-> option_f64_to_json(player.handicap)]

\* serde_json::from_str::<Player>(&json)
player_from_json(doc) ==
    [id |-> doc.id.s,
     name |-> doc.name.s,
     handicap |-> IF "handicap" \in DOMAIN doc
                  THEN option_f64_from_json(doc.handicap)
                  ELSE None]

\* ------------------------------------------------- JSON as file text ----
\* The text serde_json::to_string_pretty writes for a Scorecard, token by
\* token (white space left out): punctuation, field names, ids, and the
\* decimal digits of every number.
Digits == <<"0", "1", "2", "3", "4", "5", "6", "7", "8", "9">>

IsDigit(token) == \E d \in DOMAIN Digits : Digits[d] = token

DigitValue(token) == (CHOOSE d \in DOMAIN Digits : Digits[d] = token) - 1

\* a u8 as the digit tokens of its decimal form
u8_to_string(n) == [i \in DOMAIN u8_to_key(n) |-> Digits[u8_to_key(n)[i] + 1]]

\* the entries of a BTreeMap<u8, u8> in key order, separated by commas
RECURSIVE entries_to_string(_, _)
entries_to_string(m, keys) ==
    IF keys = {} THEN <<>>
    ELSE LET k == MinOf(keys)
             entry == u8_to_string(k) \o <<":">> \o u8_to_string(m[k])
         IN  IF keys = {k} THEN entry
             ELSE entry \o <<",">> \o entries_to_string(m, keys \ {k})

map_to_string(m) == <<"{">> \o entries_to_string(m, DOMAIN m) \o <<"}">>

\* serde_json::to_string_pretty(scorecard) as text
scorecard_to_string(scorecard) ==
    <<"{", "round_id", ":", scorecard.round_id, ",",
      "player_id", ":", scorecard.player_id, ",",
      "max_holes", ":">> \o u8_to_string(scorecard.max_holes) \o
    <<",", "scores", ":">> \o map_to_string(scorecard.scores) \o
    <<",", "pars", ":">> \o map_to_string(scorecard.pars) \o <<"}">>

\* the token at a position, "" past the end of the text
token_at(text, pos) == IF pos \in DOMAIN text THEN text[pos] ELSE ""

\* the first position at or after pos that holds no digit
RECURSIVE digits_end(_, _)
digits_end(text, pos) ==
    IF IsDigit(token_at(text, pos)) THEN digits_end(text, pos + 1) ELSE pos

\* the number written in the digits of text[from..to-1]
parse_u8(text, from, to) ==
    key_to_u8([i \in 1..(to - from) |-> DigitValue(text[from + i - 1])])

ParseFailed == [ok |-> FALSE]

\* the entries of a map from pos on, up to and including the closing brace
RECURSIVE parse_entries(_, _, _)
parse_entries(text, pos, acc) ==
    LET key_end == digits_end(text, pos)
        value_end == digits_end(text, key_end + 1)
    IN  IF \/ key_end = pos
           \/ token_at(text, key_end) # ":"
           \/ value_end = key_end + 1
        THEN ParseFailed
        ELSE LET m == insert(acc, parse_u8(text, pos, key_end),
                             parse_u8(text, key_end + 1, value_end))
             IN  IF token_at(text, value_end) = ","
                 THEN parse_entries(text, value_end + 1, m)
                 ELSE IF token_at(text, value_end) = "}"
                 THEN [ok |-> TRUE, value |-> m, next |-> value_end + 1]
                 ELSE ParseFailed

\* the text holds the expected tokens from pos on
has_tokens(text, pos, expected) ==
    \A i \in DOMAIN expected : token_at(text, pos + i - 1) = expected[i]

\* a map at pos: its value and the position after it
parse_map(text, pos) ==
    IF token_at(text, pos) # "{" THEN ParseFailed
    ELSE IF token_at(text, pos + 1) = "}"
    THEN [ok |-> TRUE, value |-> <<>>, next |-> pos + 2]
    ELSE parse_entries(text, pos + 1, <<>>)

\* serde_json::from_str::<Scorecard>(&json) on text: the five fields, the
\* closing brace, and nothing after it (trailing characters are an error)
scorecard_from_str(text) ==
    LET holes_end == digits_end(text, 12)
        scores == parse_map(text, holes_end + 3)
        pars == IF scores.ok THEN parse_map(text, scores.next + 3)
                ELSE ParseFailed
    IN  IF /\ has_tokens(text, 1, <<"{", "round_id", ":">>)
           /\ has_tokens(text, 5, <<",", "player_id", ":">>)
           /\ has_tokens(text, 9, <<",", "max_holes", ":">>)
           /\ holes_end > 12
           /\ has_tokens(text, holes_end, <<",", "scores", ":">>)
           /\ scores.ok
           /\ has_tokens(text, scores.next, <<",", "pars", ":">>)
           /\ pars.ok
           /\ token_at(text, pars.next) = "}"
           /\ pars.next = Len(text)
        THEN OkValue([round_id |-> text[4],
                      player_id |-> text[8],
                      max_holes |-> parse_u8(text, 12, holes_end),
                      scores |-> scores.value,
                      pars |-> pars.value])
        ELSE SerializationError

\* ---------------------------------------------------- FileRepository ----
\* The file system under base_path: the subdirectories that exist and the
\* files, keyed by path.  A path is <<subdirectory, id>>, the id standing
\* for the file name `<id>.json`.  Reads and writes of an existing,
\* writable base directory succeed.
\* what a file holds after outside corruption: text that is not a JSON
\* document, or bytes that are not UTF-8
JMalformed == [json |-> "malformed"]
NotUtf8 == [json |-> "not_utf8"]

\* FileRepository::new(base_path)
FileRepository_new == [dirs |-> {}, files |-> <<>>]

\* player_path, broken: players are filed under scorecards
player_path_in_scorecards(id) == <<"scorecards", id>>

player_path(id) == <<"players", id>>

scorecard_path(round_id) == <<"scorecards", round_id>>

\* path.parent().unwrap()
parent(path) == path[1]

\* path.exists()
exists(self, path) == path \in DOMAIN self.files

\* the entries of a directory
dir_entries(self, dir) == {path \in DOMAIN self.files : parent(path) = dir}

\* the orders in which std::fs::read_dir(dir) may yield the entries of a
\* directory: every order
ReadDir(self, dir) ==
    LET entries == dir_entries(self, dir)
    IN  {order \in [1..Cardinality(entries) -> entries] :
            \A i, j \in DOMAIN order : order[i] = order[j] => i = j}

\* `std::fs::read_to_string(path)?` then `serde_json::from_str(&json)?`
\* for a Player: the text must be UTF-8, a JSON object, and have the
\* fields id and name (handicap is optional)
read_player(doc) ==
    IF doc = NotUtf8 THEN IoError
    ELSE IF doc.json # "object" \/ ~({"id", "name"} \subseteq DOMAIN doc)
    THEN SerializationError
    ELSE OkValue(player_from_json(doc))

\* the same for a Scorecard: all five fields are required
read_scorecard(doc) ==
    IF doc = NotUtf8 THEN IoError
    ELSE IF \/ doc.json # "object"
            \/ ~({"round_id", "player_id", "max_holes", "scores", "pars"}
                   \subseteq DOMAIN doc)
    THEN SerializationError
    ELSE OkValue(scorecard_from_json(doc))

save_player(self, player) ==
    LET path == player_path(player.id)
    IN  [result |-> Ok,
         self |-> [self EXCEPT
                     !.dirs = @ \cup {parent(path)},
                     !.files = insert(@, path, player_to_json(player))]]

\* get_player, broken: a missing file is reported as an error
get_player_missing_is_error(self, id) ==
    LET path == player_path(id)
    IN  IF ~exists(self, path)
        THEN IoError
        ELSE LET r == read_player(self.files[path])
             IN  IF r.kind # "Ok" THEN r ELSE OkValue(Some(r.value))

get_player(self, id) ==
    LET path == player_path(id)
    IN  IF ~exists(self, path)
        THEN OkValue(None)
        ELSE LET r == read_player(self.files[path])
             IN  IF r.kind # "Ok" THEN r ELSE OkValue(Some(r.value))

\* the `for entry in std::fs::read_dir(dir)?` loop of list_players: the
\* first entry that fails ends the call with its error
RECURSIVE list_players_loop(_, _)
list_players_loop(self, order) ==
    IF order = <<>> THEN OkValue(<<>>)
    ELSE LET r == read_player(self.files[Head(order)])
         IN  IF r.kind # "Ok" THEN r
             ELSE LET rest == list_players_loop(self, Tail(order))
                  IN  IF rest.kind # "Ok" THEN rest
                      ELSE OkValue(<<r.value>> \o rest.value)

\* list_players when read_dir yields the entries in `order`
list_players(self, order) ==
    IF "players" \notin self.dirs
    THEN OkValue(<<>>)
    ELSE list_players_loop(self, order)

save_scorecard(self, scorecard) ==
    LET path == scorecard_path(scorecard.round_id)
    IN  [result |-> Ok,
         self |-> [self EXCEPT
                     !.dirs = @ \cup {parent(path)},
                     !.files = insert(@, path, scorecard_to_json(scorecard))]]

get_scorecard(self, round_id) ==
    LET path == scorecard_path(round_id)
    IN  IF ~exists(self, path)
        THEN OkValue(None)
        ELSE LET r == read_scorecard(self.files[path])
             IN  IF r.kind # "Ok" THEN r ELSE OkValue(Some(r.value))

\* the `for entry in std::fs::read_dir(dir)?` loop of list_scorecards
RECURSIVE list_scorecards_loop(_, _)
list_scorecards_loop(self, order) ==
    IF order = <<>> THEN OkValue(<<>>)
    ELSE LET r == read_scorecard(self.files[Head(order)])
         IN  IF r.kind # "Ok" THEN r
             ELSE LET rest == list_scorecards_loop(self, Tail(order))
                  IN  IF rest.kind # "Ok" THEN rest
                      ELSE OkValue(<<r.value>> \o rest.value)

\* list_scorecards when read_dir yields the entries in `order`
list_scorecards(self, order) ==
    IF "scorecards" \notin self.dirs
    THEN OkValue(<<>>)
    ELSE list_scorecards_loop(self, order)

\* the filter of get_scorecards_by_player, broken: compares the round id
has_player_id_round(x, player_id) == x.round_id = player_id

\* `&x.player_id == player_id`
has_player_id(x, player_id) == x.player_id = player_id

RECURSIVE filter_by_player(_, _)
filter_by_player(results, player_id) ==
    IF results = <<>> THEN <<>>
    ELSE IF has_player_id(Head(results), player_id)
    THEN <<Head(results)>> \o filter_by_player(Tail(results), player_id)
    ELSE filter_by_player(Tail(results), player_id)

\* get_scorecards_by_player when read_dir yields the entries in `order`
get_scorecards_by_player(self, order, player_id) ==
    LET results == list_scorecards(self, order)
    IN  IF results.kind # "Ok" THEN results
        ELSE OkValue(filter_by_player(results.value, player_id))

\* ------------------------------------------------------------- state ----
VARIABLES
    card,       \* Option<Scorecard>: the caller's card, None before new
    pc,         \* "running", or "panicked" once a call has panicked
    last,       \* the most recent call: its arguments and its Result
    repeated,   \* TRUE iff the last two calls were the same successful
                \* record_score(hole, strokes)
    prior,      \* get_score(hole) just before the last record_score call
    slice,      \* Vec<Scorecard>: the scorecards given to from_scorecards
    stats,      \* Option<PlayerStatistics>: what from_scorecards returned
    sum_pos,    \* completed scorecards the u16 sum has consumed so far
    sum_acc,    \* the u16 accumulator of that sum
    player,     \* Option<Player>: the caller's player, None before new
    repo,       \* the FileRepository: the files under its base_path
    saved,      \* per kind and id, the value most recently passed to save_*
    disk,       \* Option<text>: the one file two writers save to
    writers,    \* the concurrent save_scorecard calls: position and text
    finished    \* the writers that have returned, in order of return

vars == <<card, pc, last, repeated, prior, slice, stats, sum_pos, sum_acc,
          player, repo, saved, disk, writers, finished>>

\* no save_* call has been made
NothingSaved == [players |-> <<>>, scorecards |-> <<>>]

NoCall ==
    [op |-> "none", hole |-> 0, strokes |-> 0, max_holes |-> 0,
     pars |-> <<>>, result |-> Ok]

Init ==
    /\ card = None
    /\ pc = "running"
    /\ last = NoCall
    /\ repeated = FALSE
    /\ prior = None
    /\ slice = <<>>
    /\ stats = None
    /\ sum_pos = 0
    /\ sum_acc = 0
    /\ player = None
    /\ repo = FileRepository_new
    /\ saved = NothingSaved
    /\ disk = None
    /\ writers = <<>>
    /\ finished = <<>>

\* let card = Scorecard::new(player_id, max_holes, pars): the one
\* construction of a behaviour; a failed construction leaves no card
New ==
    /\ pc = "running"
    /\ card = None
    /\ last.op = "none"
    /\ \E round_id \in RoundIds, player_id \in PlayerIds,
          max_holes \in MaxHolesInputs, pars \in ParLayouts :
         LET r == Scorecard_new(round_id, player_id, max_holes, pars)
         IN  /\ card' = r.card
             /\ last' = [op |-> "new", hole |-> 0, strokes |-> 0,
                         max_holes |-> max_holes, pars |-> pars,
                         result |-> r.result]
    /\ repeated' = FALSE
    /\ prior' = None
    /\ UNCHANGED <<pc, slice, stats, sum_pos, sum_acc,
                 player, repo,
                   saved, disk, writers, finished>>

\* card.record_score(hole, strokes)
RecordScore ==
    /\ pc = "running"
    /\ card # None
    /\ \E hole \in HoleInputs, strokes \in StrokeInputs :
         LET r == record_score(card[1], hole, strokes)
         IN  /\ card' = Some(r.self)
             /\ pc' = IF r.result.kind = "Panic" THEN "panicked" ELSE pc
             /\ last' = [op |-> "record_score", hole |-> hole,
                         strokes |-> strokes, max_holes |-> 0,
                         pars |-> <<>>, result |-> r.result]
             /\ repeated' = (/\ r.result.kind = "Ok"
                             /\ last.op = "record_score"
                             /\ last.result.kind = "Ok"
                             /\ last.hole = hole
                             /\ last.strokes = strokes)
             /\ prior' = get_score(card[1], hole)
    /\ UNCHANGED <<slice, stats, sum_pos, sum_acc,
                 player, repo,
                   saved, disk, writers, finished>>

Next == New \/ RecordScore

Spec == Init /\ [][Next]_vars

\* ---------------------------------------- statistics over a slice ----
\* scorecards.push(Scorecard::new(player_id, holes, pars)?)
AddCard ==
    /\ pc = "running"
    /\ stats = None
    /\ Len(slice) < MaxCards
    /\ Len(slice) < Len(RoundIdSeq)
    /\ \E player_id \in StatPlayerIds, pars \in StatLayouts :
         LET r == Scorecard_new(RoundIdSeq[Len(slice) + 1], player_id,
                                Len(pars), pars)
         IN  slice' = IF r.result.kind = "Ok"
                      THEN Append(slice, r.card[1])
                      ELSE slice
    /\ UNCHANGED <<card, pc, last, repeated, prior, stats, sum_pos, sum_acc,
                 player, repo,
                   saved, disk, writers, finished>>

\* scorecards[i].record_score(hole, strokes)
RecordOn ==
    /\ pc = "running"
    /\ stats = None
    /\ \E i \in 1..Len(slice), hole \in StatHoles, strokes \in StatStrokes :
         LET r == record_score(slice[i], hole, strokes)
         IN  /\ slice' = [slice EXCEPT ![i] = r.self]
             /\ pc' = IF r.result.kind = "Panic" THEN "panicked" ELSE pc
    /\ UNCHANGED <<card, last, repeated, prior, stats, sum_pos, sum_acc,
                 player, repo,
                   saved, disk, writers, finished>>

\* let stats = PlayerStatistics::from_scorecards(&scorecards)
Compute ==
    /\ pc = "running"
    /\ stats = None
    /\ \E build \in Builds :
         LET r == from_scorecards(slice, build)
         IN  /\ stats' = Some(r)
             /\ pc' = IF r.kind = "Panic" THEN "panicked" ELSE pc
    /\ UNCHANGED <<card, last, repeated, prior, slice, sum_pos, sum_acc,
                 player, repo,
                   saved, disk, writers, finished>>

NextStats == AddCard \/ RecordOn \/ Compute

SpecStats == Init /\ [][NextStats]_vars

\* ------------------------------- the average over a long history ----
\* record_score(hole, strokes) for hole, hole + 1, .., max_holes
RECURSIVE play_from(_, _, _)
play_from(self, hole, strokes) ==
    IF hole > self.max_holes THEN self
    ELSE play_from(record_score(self, hole, strokes).self, hole + 1, strokes)

\* an 18-hole card, all holes of the given par, not yet played
UnplayedCard(round_id, par) ==
    Scorecard_new(round_id, "p1", BulkHoles,
                  [h \in 1..BulkHoles |-> par]).card[1]

\* the same card with every hole played at `strokes`
FullCard(round_id, par, strokes) ==
    play_from(UnplayedCard(round_id, par), 1, strokes)

\* histories of one unplayed card at most, then n full cards
BulkSlices ==
    {lead \o [i \in 1..n |-> FullCard(i, par, strokes)] :
        lead \in {<<>>, <<UnplayedCard(0, 5)>>},
        n \in BulkLengths, par \in BulkPars, strokes \in BulkStrokes}

InitBulk ==
    /\ card = None
    /\ pc = "running"
    /\ last = NoCall
    /\ repeated = FALSE
    /\ prior = None
    /\ slice \in BulkSlices
    /\ stats = None
    /\ sum_pos = 0
    /\ sum_acc = 0
    /\ player = None
    /\ repo = FileRepository_new
    /\ saved = NothingSaved
    /\ disk = None
    /\ writers = <<>>
    /\ finished = <<>>

\* one step of `completed_scorecards.iter().filter_map(|x|
\* x.total_strokes()).sum()`: the next total is added to the accumulator;
\* an overflowing addition panics with overflow checks and wraps without
SumStep ==
    /\ pc = "running"
    /\ stats = None
    /\ LET completed == completed_scorecards(slice)
       IN  /\ Len(completed) > 0
           /\ sum_pos < Len(completed)
           /\ LET t == total_strokes(completed[sum_pos + 1])
                  r == IF t = None
                       THEN [value |-> sum_acc, overflow |-> FALSE]
                       ELSE add_u16(sum_acc, t[1])
              IN  \E build \in Builds :
                    IF r.overflow /\ build = "debug"
                    THEN /\ pc' = "panicked"
                         /\ UNCHANGED <<sum_pos, sum_acc>>
                    ELSE /\ pc' = pc
                         /\ sum_pos' = sum_pos + 1
                         /\ sum_acc' = r.value
    /\ UNCHANGED <<card, last, repeated, prior, slice, stats, player, repo,
                   saved, disk, writers, finished>>

\* `Some(total as f64 / completed_rounds as f64)`, or None for no
\* completed round
SumDone ==
    /\ pc = "running"
    /\ stats = None
    /\ LET completed_rounds == Len(completed_scorecards(slice))
       IN  /\ sum_pos = completed_rounds
           /\ stats' = Some([kind |-> "Average",
                             completed_rounds |-> completed_rounds,
                             average_score |->
                                 IF completed_rounds > 0
                                 THEN Some(f64_div(sum_acc, completed_rounds))
                                 ELSE None])
    /\ UNCHANGED <<card, pc, last, repeated, prior, slice, sum_pos, sum_acc,
                 player, repo,
                   saved, disk, writers, finished>>

NextBulk == SumStep \/ SumDone

SpecBulk == InitBulk /\ [][NextBulk]_vars

\* ------------------------------------------- a caller of the repository ----
\* round ids and player ids are Uuid::new_v4() values: an id is never
\* handed out twice
FreshRoundIds ==
    RepoRoundIds \ (DOMAIN saved.scorecards
                     \cup (IF card = None THEN {} ELSE {card[1].round_id}))

FreshPlayerIds ==
    PlayerIds \ (DOMAIN saved.players
                  \cup (IF player = None THEN {} ELSE {player[1].id}))

\* let mut scorecard = Scorecard::new(player_id, holes, pars)?
RepoNewCard ==
    /\ pc = "running"
    /\ \E round_id \in FreshRoundIds, player_id \in PlayerIds,
          pars \in RepoLayouts :
         card' = Scorecard_new(round_id, player_id, Len(pars), pars).card
    /\ UNCHANGED <<pc, last, repeated, prior, slice, stats, sum_pos, sum_acc,
                   player, repo,
                   saved, disk, writers, finished>>

\* record_score, broken: the repository holds the card itself, so the
\* recorded score shows in the stored record at once
RepoRecord_write_through ==
    /\ pc = "running"
    /\ card # None
    /\ \E hole \in RepoHoles, strokes \in RepoStrokes :
         LET r == record_score(card[1], hole, strokes)
         IN  /\ card' = Some(r.self)
             /\ pc' = IF r.result.kind = "Panic" THEN "panicked" ELSE pc
             /\ repo' = IF exists(repo, scorecard_path(r.self.round_id))
                        THEN save_scorecard(repo, r.self).self
                        ELSE repo
    /\ UNCHANGED <<last, repeated, prior, slice, stats, sum_pos, sum_acc,
                   player, saved, disk, writers, finished>>

\* scorecard.record_score(hole, strokes)
RepoRecord ==
    /\ pc = "running"
    /\ card # None
    /\ \E hole \in RepoHoles, strokes \in RepoStrokes :
         LET r == record_score(card[1], hole, strokes)
         IN  /\ card' = Some(r.self)
             /\ pc' = IF r.result.kind = "Panic" THEN "panicked" ELSE pc
    /\ UNCHANGED <<last, repeated, prior, slice, stats, sum_pos, sum_acc,
                   player, repo,
                   saved, disk, writers, finished>>

\* repo.save_scorecard(&scorecard)?
SaveScorecard ==
    /\ pc = "running"
    /\ card # None
    /\ repo' = save_scorecard(repo, card[1]).self
    /\ saved' = [saved EXCEPT
                    !.scorecards = insert(@, card[1].round_id, card[1])]
    /\ UNCHANGED <<card, pc, last, repeated, prior, slice, stats, sum_pos,
                   sum_acc, player,
                   disk, writers, finished>>

\* let player = Player::new(name, handicap)?
NewPlayer ==
    /\ pc = "running"
    /\ \E id \in FreshPlayerIds, name \in NameInputs,
          handicap \in HandicapInputs :
         player' = Player_new(id, name, handicap).player
    /\ UNCHANGED <<card, pc, last, repeated, prior, slice, stats, sum_pos,
                   sum_acc, repo,
                   saved, disk, writers, finished>>

\* player.handicap = handicap (the fields of Player are public)
SetHandicap ==
    /\ pc = "running"
    /\ player # None
    /\ \E handicap \in HandicapInputs :
         player' = Some([player[1] EXCEPT !.handicap = handicap])
    /\ UNCHANGED <<card, pc, last, repeated, prior, slice, stats, sum_pos,
                   sum_acc, repo, saved, disk, writers, finished>>

\* repo.save_player(&player)?
SavePlayer ==
    /\ pc = "running"
    /\ player # None
    /\ repo' = save_player(repo, player[1]).self
    /\ saved' = [saved EXCEPT !.players = insert(@, player[1].id, player[1])]
    /\ UNCHANGED <<card, pc, last, repeated, prior, slice, stats, sum_pos,
                   sum_acc, player,
                   disk, writers, finished>>

NextRepo ==
    \/ RepoNewCard
    \/ RepoRecord
    \/ SaveScorecard
    \/ NewPlayer
    \/ SetHandicap
    \/ SavePlayer

SpecRepo == Init /\ [][NextRepo]_vars

\* ------------------------------------------------- corrupted records ----
\* a stored file is damaged outside the program: its content is no longer
\* a JSON document, or no longer UTF-8
CorruptFile ==
    /\ pc = "running"
    /\ \E path \in DOMAIN repo.files, junk \in {JMalformed, NotUtf8} :
         repo' = [repo EXCEPT !.files = insert(@, path, junk)]
    /\ UNCHANGED <<card, pc, last, repeated, prior, slice, stats, sum_pos,
                   sum_acc, player, saved, disk, writers, finished>>

\* saves of new cards and new players, and corruption
NextCorrupt ==
    \/ RepoNewCard
    \/ SaveScorecard
    \/ NewPlayer
    \/ SavePlayer
    \/ CorruptFile

SpecCorrupt == Init /\ [][NextCorrupt]_vars

\* ------------------------------------- two writers of one scorecard ----
\* Two save_scorecard calls for the same round id run at the same time
\* (two processes, or two FileRepository values over one base_path).
\* std::fs::write is File::create, which creates or truncates the file,
\* followed by write_all, which writes the text at the start of the file.
Writers == {"w1", "w2"}

\* the card both writers save, as it is after 0, 1 and 2 recorded holes
RaceCards ==
    LET c0 == Scorecard_new("r1", "p1", 2, <<3, 5>>).card[1]
        c1 == record_score(c0, 1, 4).self
        c2 == record_score(c1, 2, 4).self
    IN  {c0, c1, c2}

\* what one write of `text` at the start of a file leaves in it: the
\* text, then what the file held beyond the length of the text
write_at_start(content, text) ==
    text \o SubSeq(content, Len(text) + 1, Len(content))

InitRace ==
    /\ card = None
    /\ pc = "running"
    /\ last = NoCall
    /\ repeated = FALSE
    /\ prior = None
    /\ slice = <<>>
    /\ stats = None
    /\ sum_pos = 0
    /\ sum_acc = 0
    /\ player = None
    /\ repo = FileRepository_new
    /\ saved = NothingSaved
    /\ disk \in {None} \cup {Some(scorecard_to_string(c)) : c \in RaceCards}
    /\ writers \in [Writers -> {[at |-> "start", scorecard |-> c,
                                  result |-> None] : c \in RaceCards}]
    /\ finished = <<>>

\* save_scorecard up to and including File::create: the file exists and is
\* empty
WriterCreate ==
    /\ \E w \in Writers :
         /\ writers[w].at = "start"
         /\ writers' = [writers EXCEPT ![w].at = "created"]
         /\ disk' = Some(<<>>)
    /\ UNCHANGED <<card, pc, last, repeated, prior, slice, stats, sum_pos,
                   sum_acc, player, repo, saved, finished>>

\* write_all(json) and the return of Ok(())
WriterWrite ==
    /\ \E w \in Writers :
         /\ writers[w].at = "created"
         /\ writers' = [writers EXCEPT ![w].at = "returned",
                                       ![w].result = Some(Ok)]
         /\ disk' = Some(write_at_start(
                             disk[1],
                             scorecard_to_string(writers[w].scorecard)))
         /\ finished' = Append(finished, w)
    /\ UNCHANGED <<card, pc, last, repeated, prior, slice, stats, sum_pos,
                   sum_acc, player, repo, saved>>

NextRace == WriterCreate \/ WriterWrite

SpecRace == InitRace /\ [][NextRace]_vars

\* ------------------------------------------------ the command handlers ----
\* Commands::AddPlayer { name, handicap }
AddPlayer ==
    /\ pc = "running"
    /\ \E id \in FreshPlayerIds :
         LET r == Player_new(id, <<"A">>, None)
         IN  /\ player' = r.player
             /\ repo' = save_player(repo, r.player[1]).self
             /\ saved' = [saved EXCEPT
                             !.players = insert(@, id, r.player[1])]
    /\ UNCHANGED <<card, pc, last, repeated, prior, slice, stats, sum_pos,
                   sum_acc,
                   disk, writers, finished>>

\* Commands::CreateScorecard { player_id, holes, course }: the one
\* scorecard of a behaviour.  The player must be stored; the layout comes
\* from get_course_pars; the new card is saved.
CreateScorecard ==
    /\ pc = "running"
    /\ card = None
    /\ last.op = "none"
    /\ \E round_id \in RoundIds, player_id \in PlayerIds,
          holes \in CourseHoleInputs, course \in CourseNames :
         IF get_player(repo, player_id).value = None
         THEN /\ last' = [op |-> "create_scorecard", hole |-> 0,
                          strokes |-> 0, max_holes |-> holes, pars |-> <<>>,
                          result |-> [kind |-> "PlayerNotFound"]]
              /\ UNCHANGED <<card, repo, saved>>
         ELSE LET pars == get_course_pars(course, holes)
                  r == Scorecard_new(round_id, player_id, holes, pars)
              IN  /\ card' = r.card
                  /\ last' = [op |-> "create_scorecard", hole |-> 0,
                              strokes |-> 0, max_holes |-> holes,
                              pars |-> pars, result |-> r.result]
                  /\ repo' = IF r.result.kind = "Ok"
                             THEN save_scorecard(repo, r.card[1]).self
                             ELSE repo
                  /\ saved' = IF r.result.kind = "Ok"
                              THEN [saved EXCEPT
                                      !.scorecards =
                                          insert(@, round_id, r.card[1])]
                              ELSE saved
    /\ UNCHANGED <<pc, repeated, prior, slice, stats, sum_pos, sum_acc,
                   player,
                   disk, writers, finished>>

\* scorecard.record_score(hole, strokes) on the created card, the holes
\* of 1..max_holes played upwards from any first hole
PlayHole ==
    /\ pc = "running"
    /\ card # None
    /\ \E hole \in 1..card[1].max_holes, strokes \in CourseStrokes :
         /\ card[1].scores # <<>> => hole - 1 \in DOMAIN card[1].scores
         /\ hole \notin DOMAIN card[1].scores
         /\ LET r == record_score(card[1], hole, strokes)
            IN  /\ card' = Some(r.self)
                /\ pc' = IF r.result.kind = "Panic" THEN "panicked" ELSE pc
                /\ last' = [op |-> "record_score", hole |-> hole,
                            strokes |-> strokes, max_holes |-> 0,
                            pars |-> <<>>, result |-> r.result]
    /\ UNCHANGED <<repeated, prior, slice, stats, sum_pos, sum_acc, player,
                   repo,
                   saved, disk, writers, finished>>

NextCourse == AddPlayer \/ CreateScorecard \/ PlayHole

SpecCourse == Init /\ [][NextCourse]_vars

\* ================================================== checked properties ==
\* plain integer sum of f over the keys S (no fixed width)
RECURSIVE SumOver(_, _)
SumOver(f, S) ==
    IF S = {} THEN 0
    ELSE LET k == CHOOSE x \in S : TRUE
         IN  f[k] + SumOver(f, S \ {k})

HoleInRange(h, max_holes) == h >= 1 /\ h <= max_holes
ParInRange(p) == p \in {3, 4, 5}
StrokesInRange(s) == s >= 1 /\ s <= 15

\* the entries of the layout passed to the last Scorecard::new that break
\* a bound
BadEntries ==
    {h \in DOMAIN last.pars :
        ~(HoleInRange(h, last.max_holes) /\ ParInRange(last.pars[h]))}

\* C1: Scorecard::new succeeds iff every (hole, par) entry has
\* 1 <= hole <= max_holes and par in {3,4,5}; otherwise it returns the
\* error matching a violating entry (InvalidHole with that hole and
\* max_holes, or InvalidPar with that par) and constructs no card.
C1_NewValidatesLayout ==
    last.op = "new" =>
        /\ (last.result.kind = "Ok") <=> (BadEntries = {})
        /\ (last.result.kind = "Ok") <=> (card # None)
        /\ last.result.kind \in {"Ok", "InvalidHole", "InvalidPar"}
        /\ last.result.kind = "InvalidHole" =>
             /\ last.result.hole \in DOMAIN last.pars
             /\ ~HoleInRange(last.result.hole, last.max_holes)
             /\ last.result.max_holes = last.max_holes
        /\ last.result.kind = "InvalidPar" =>
             \E h \in DOMAIN last.pars :
                 /\ last.pars[h] = last.result.par
                 /\ ~ParInRange(last.pars[h])

\* a layout with a bad par on a valid hole and a later out-of-range hole
\* was rejected with InvalidPar
C1_Witness ==
    /\ last.op = "new"
    /\ last.result.kind = "InvalidPar"
    /\ card = None
    /\ \E h \in DOMAIN last.pars : ~HoleInRange(h, last.max_holes)

\* C2: a record_score call that returns InvalidHole (hole = 0 or
\* hole > max_holes) or InvalidScore (strokes outside 1..15) leaves the
\* whole scorecard exactly as it was before the call.
C2_ErrorLeavesCardUnchanged ==
    [][(/\ last'.op = "record_score"
        /\ last'.result.kind \in {"InvalidHole", "InvalidScore"})
       => /\ card' = card
          /\ last'.result.kind = "InvalidHole" =>
               ~HoleInRange(last'.hole, card[1].max_holes)
          /\ last'.result.kind = "InvalidScore" =>
               ~StrokesInRange(last'.strokes)]_vars

\* a card that already holds scores rejected a score with InvalidScore
C2_Witness ==
    /\ last.op = "record_score"
    /\ last.result.kind = "InvalidScore"
    /\ card # None
    /\ card[1].scores # <<>>

\* C3: record_score never ends in an unrecoverable fault: it returns
\* success or a validation error, also when the hole is in range but the
\* par layout has no entry for it.
C3_RecordScoreNeverFaults ==
    last.op = "record_score" =>
        /\ pc = "running"
        /\ last.result.kind \in
             {"Ok", "InvalidHole", "InvalidScore", "UnknownHole"}

\* C4: is_complete() is true iff the number of distinct scored holes
\* equals max_holes, in every reachable scorecard state.
C4_CompleteIffAllHolesScored ==
    card # None =>
        (is_complete(card[1]) <=>
            Cardinality(DOMAIN card[1].scores) = card[1].max_holes)

\* a card of at least two holes became complete through record_score
C4_Witness ==
    /\ card # None
    /\ last.op = "record_score"
    /\ last.result.kind = "Ok"
    /\ card[1].max_holes >= 2
    /\ is_complete(card[1])

\* C5: total_strokes() and score_relative_to_par() are both None while
\* is_complete() is false and both Some once it is true.
C5_TotalsGatedByCompletion ==
    card # None =>
        /\ is_complete(card[1]) =>
             /\ total_strokes(card[1]) # None
             /\ score_relative_to_par(card[1]) # None
        /\ ~is_complete(card[1]) =>
             /\ total_strokes(card[1]) = None
             /\ score_relative_to_par(card[1]) = None

\* a partially scored card reports no totals
C5_Witness ==
    /\ card # None
    /\ last.op = "record_score"
    /\ card[1].scores # <<>>
    /\ ~is_complete(card[1])
    /\ total_strokes(card[1]) = None

\* C6: for a complete card total_strokes() is the sum of the strokes of
\* the holes 1..max_holes and score_relative_to_par() is that sum minus
\* the sum of the pars of the holes 1..max_holes.
C6_TotalsAreSums ==
    (card # None /\ is_complete(card[1])) =>
        LET c == card[1]
            holes == 1..c.max_holes
        IN  /\ holes \subseteq DOMAIN c.scores
            /\ holes \subseteq DOMAIN c.pars
            /\ total_strokes(c) = Some(SumOver(c.scores, holes))
            /\ score_relative_to_par(c) =
                 Some(SumOver(c.scores, holes) - SumOver(c.pars, holes))

\* a complete card of at least two holes that is under par
C6_Witness ==
    /\ card # None
    /\ last.op = "record_score"
    /\ card[1].max_holes >= 2
    /\ is_complete(card[1])
    /\ score_relative_to_par(card[1]) # None
    /\ score_relative_to_par(card[1])[1] < 0

\* C7: record_score is idempotent: a second record_score(hole, strokes)
\* with the same valid arguments, right after the first, leaves the card
\* (scores, pars, completion, totals) exactly as the first left it.
C7_RecordScoreIdempotent ==
    [][repeated' =>
         /\ card' = card
         /\ is_complete(card'[1]) = is_complete(card[1])
         /\ total_strokes(card'[1]) = total_strokes(card[1])
         /\ score_relative_to_par(card'[1]) =
              score_relative_to_par(card[1])]_vars

\* the same successful call was made twice in a row
C7_Witness ==
    /\ repeated
    /\ last.result.kind = "Ok"
    /\ get_score(card[1], last.hole) = Some(last.strokes)

C9_CompleteCardImmutable ==
    [][(card # None /\ is_complete(card[1])) =>
         card'[1].scores = card[1].scores]_vars

\* C10: completion is monotonic: once is_complete() is true it stays true
\* after every further record_score call, valid or invalid.
C10_CompletionMonotonic ==
    [][(card # None /\ is_complete(card[1])) =>
         is_complete(card'[1])]_vars

\* a complete card of at least two holes was re-scored and is still
\* complete
C10_Witness ==
    /\ last.op = "record_score"
    /\ last.result.kind = "Ok"
    /\ prior # None
    /\ card[1].max_holes >= 2
    /\ is_complete(card[1])

\* C11: a record_score call never changes the par layout, max_holes,
\* round_id or player_id, and a successful record_score(hole, strokes)
\* changes the stored score of that one hole only.
C11_RecordScoreFrame ==
    [][last'.op = "record_score" =>
         /\ card'[1].pars = card[1].pars
         /\ \A h \in (DOMAIN card[1].pars) \cup HoleInputs :
              get_par(card'[1], h) = get_par(card[1], h)
         /\ card'[1].max_holes = card[1].max_holes
         /\ card'[1].round_id = card[1].round_id
         /\ card'[1].player_id = card[1].player_id
         /\ \A h \in (DOMAIN card[1].scores) \cup (DOMAIN card'[1].scores)
                      \cup HoleInputs :
              h # last'.hole =>
                  get_score(card'[1], h) = get_score(card[1], h)]_vars

\* a card with another hole already scored took a new score
C11_Witness ==
    /\ last.op = "record_score"
    /\ last.result.kind = "Ok"
    /\ \E h \in DOMAIN card[1].scores : h # last.hole
    /\ get_score(card[1], last.hole) = Some(last.strokes)

\* C12: every key of pars is in 1..max_holes with par in {3,4,5}; every
\* key of scores is in 1..max_holes, has a par entry, and its strokes are
\* in 1..15.
C12_DataInvariant ==
    card # None =>
        LET c == card[1]
        IN  /\ \A h \in DOMAIN c.pars :
                 HoleInRange(h, c.max_holes) /\ ParInRange(c.pars[h])
            /\ \A h \in DOMAIN c.scores :
                 /\ HoleInRange(h, c.max_holes)
                 /\ h \in DOMAIN c.pars
                 /\ StrokesInRange(c.scores[h])

\* a card holding a score at each end of the stroke range
C12_Witness ==
    /\ card # None
    /\ last.op = "record_score"
    /\ \E h1, h2 \in DOMAIN card[1].scores :
         card[1].scores[h1] = 1 /\ card[1].scores[h2] = 15

\* ------------------------------------------ properties of SpecStats ----
\* indices of the scorecards of the slice with every hole scored
CompletedIdx ==
    {i \in 1..Len(slice) :
        Cardinality(DOMAIN slice[i].scores) = slice[i].max_holes}

\* strokes of scorecard i summed over its holes, and the same minus the pars
TotalOf(i) == SumOver(slice[i].scores, 1..slice[i].max_holes)
RelativeOf(i) == TotalOf(i) - SumOver(slice[i].pars, 1..slice[i].max_holes)

RECURSIVE SumTotalOf(_)
SumTotalOf(I) ==
    IF I = {} THEN 0
    ELSE LET i == CHOOSE x \in I : TRUE
         IN  TotalOf(i) + SumTotalOf(I \ {i})

RECURSIVE SumRelativeOf(_)
SumRelativeOf(I) ==
    IF I = {} THEN 0
    ELSE LET i == CHOOSE x \in I : TRUE
         IN  RelativeOf(i) + SumRelativeOf(I \ {i})

\* (scorecard, hole) pairs of the scorecards I with a score and a par
ScoredPairs(I) ==
    {<<i, h>> \in I \X (0..U8Mod - 1) :
        h \in DOMAIN slice[i].scores /\ h \in DOMAIN slice[i].pars}

\* strokes - par of a scored pair
Diff(p) == slice[p[1]].scores[p[2]] - slice[p[1]].pars[p[2]]

\* the slice reordered by the permutation f of its indices
Permuted(f) == [i \in 1..Len(slice) |-> slice[f[i]]]
SlicePermutations ==
    {f \in [1..Len(slice) -> 1..Len(slice)] :
        \A i, j \in 1..Len(slice) : f[i] = f[j] => i = j}

\* C13: total_rounds is the number of input scorecards, completed_rounds
\* the number of them that are complete, so completed_rounds <=
\* total_rounds; both are 0 for the empty slice.
C13_RoundCounts ==
    stats # None =>
        /\ stats[1].kind = "Stats"
        /\ stats[1].total_rounds = Len(slice)
        /\ stats[1].completed_rounds = Cardinality(CompletedIdx)
        /\ stats[1].completed_rounds <= stats[1].total_rounds
        /\ slice = <<>> =>
             stats[1].total_rounds = 0 /\ stats[1].completed_rounds = 0

\* statistics of a slice with one complete and one incomplete scorecard
C13_Witness ==
    /\ stats # None
    /\ Len(slice) = 2
    /\ Cardinality(CompletedIdx) = 1
    /\ \E i \in 1..2 : i \notin CompletedIdx /\ slice[i].scores # <<>>

\* C15: best_score and worst_score are the minimum and the maximum of
\* total_strokes() over the completed scorecards, and both are None exactly
\* when no scorecard is complete.
C15_BestWorst ==
    stats # None =>
        /\ (stats[1].best_score = None) <=> (CompletedIdx = {})
        /\ (stats[1].worst_score = None) <=> (CompletedIdx = {})
        /\ CompletedIdx # {} =>
             /\ \E i \in CompletedIdx : stats[1].best_score = Some(TotalOf(i))
             /\ \A i \in CompletedIdx : stats[1].best_score[1] <= TotalOf(i)
             /\ \E i \in CompletedIdx : stats[1].worst_score = Some(TotalOf(i))
             /\ \A i \in CompletedIdx : stats[1].worst_score[1] >= TotalOf(i)

\* two completed scorecards with different totals, the worse one first
C15_Witness ==
    /\ stats # None
    /\ Len(slice) = 2
    /\ CompletedIdx = {1, 2}
    /\ TotalOf(1) > TotalOf(2)
    /\ stats[1].best_score = Some(TotalOf(2))
    /\ stats[1].worst_score = Some(TotalOf(1))

\* C16: total_under_par is the sum of the negative relative scores of the
\* completed scorecards, total_over_par the sum of the positive ones; a
\* round at par adds to neither and the two are never netted.
C16_UnderOverPar ==
    stats # None =>
        /\ stats[1].total_under_par =
             SumRelativeOf({i \in CompletedIdx : RelativeOf(i) < 0})
        /\ stats[1].total_over_par =
             SumRelativeOf({i \in CompletedIdx : RelativeOf(i) > 0})
        /\ stats[1].total_under_par <= 0
        /\ stats[1].total_over_par >= 0

\* one completed round under par and one over par in the same slice
C16_Witness ==
    /\ stats # None
    /\ \E i, j \in CompletedIdx : RelativeOf(i) < 0 /\ RelativeOf(j) > 0
    /\ stats[1].total_under_par < 0
    /\ stats[1].total_over_par > 0

\* C17: each hole of each completed scorecard increments exactly one
\* counter, chosen by d = strokes - par: eagles for d <= -2, birdies for
\* d = -1, pars for d = 0, bogeys for d = 1, double_bogeys for d >= 2.
C17_HoleClassification ==
    stats # None =>
        LET P == ScoredPairs(CompletedIdx)
        IN  /\ \A i \in CompletedIdx :
                 \A h \in 1..slice[i].max_holes : <<i, h>> \in P
            /\ stats[1].eagles = Cardinality({p \in P : Diff(p) <= -2})
            /\ stats[1].birdies = Cardinality({p \in P : Diff(p) = -1})
            /\ stats[1].pars = Cardinality({p \in P : Diff(p) = 0})
            /\ stats[1].bogeys = Cardinality({p \in P : Diff(p) = 1})
            /\ stats[1].double_bogeys =
                 Cardinality({p \in P : Diff(p) >= 2})

\* completed scorecards of different lengths, an eagle and a double bogey
C17_Witness ==
    /\ stats # None
    /\ \E i, j \in CompletedIdx : slice[i].max_holes # slice[j].max_holes
    /\ stats[1].eagles >= 1
    /\ stats[1].double_bogeys >= 1

\* the five counters added up
CounterSum ==
    stats[1].eagles + stats[1].birdies + stats[1].pars + stats[1].bogeys
        + stats[1].double_bogeys

\* C18 as claimed: the five counters add up to the number of (scorecard,
\* hole) pairs of the whole input that have a score and a par.
C18_CountersCoverInput ==
    stats # None =>
        CounterSum = Cardinality(ScoredPairs(1..Len(slice)))

\* C18 amended: the five counters add up to the number of (scorecard, hole)
\* pairs of the completed scorecards of the input that have a score and a
\* par.
C18_CountersCoverCompleted ==
    stats # None =>
        CounterSum = Cardinality(ScoredPairs(CompletedIdx))

\* a completed two-hole scorecard next to a partly scored one
C18_Witness ==
    /\ stats # None
    /\ \E i \in CompletedIdx : slice[i].max_holes = 2
    /\ \E i \in 1..Len(slice) :
         i \notin CompletedIdx /\ slice[i].scores # <<>>
    /\ CounterSum >= 2

\* C19: from_scorecards returns the same value in every field for every
\* permutation of its input, under either build, and leaves the input
\* scorecards as they were.
C19_OrderIndependent ==
    [][stats' # stats =>
         /\ slice' = slice
         /\ \A f \in SlicePermutations, build \in Builds :
              from_scorecards(Permuted(f), build) = stats'[1]]_vars

\* statistics of two different completed scorecards
C19_Witness ==
    /\ stats # None
    /\ Len(slice) = 2
    /\ CompletedIdx = {1, 2}
    /\ slice[1].scores # slice[2].scores
    /\ TotalOf(1) # TotalOf(2)

\* ------------------------------------------- properties of SpecBulk ----
\* TotalOf(i) added up over the completed scorecards i of lo..hi
RECURSIVE SumCompletedTotals(_, _)
SumCompletedTotals(lo, hi) ==
    IF lo > hi THEN 0
    ELSE IF lo = hi
    THEN (IF lo \in CompletedIdx THEN TotalOf(lo) ELSE 0)
    ELSE LET mid == (lo + hi) \div 2
         IN  SumCompletedTotals(lo, mid) + SumCompletedTotals(mid + 1, hi)

\* C14: average_score is None when no input scorecard is complete and
\* otherwise the exact mean of total_strokes() over the completed
\* scorecards, the true sum divided by completed_rounds, for a slice of any
\* size: the sum accumulator neither overflows nor wraps.
C14_AverageExact ==
    /\ pc = "running"
    /\ stats # None =>
         stats[1].average_score =
             IF CompletedIdx = {} THEN None
             ELSE Some(f64_div(SumCompletedTotals(1, Len(slice)),
                               Cardinality(CompletedIdx)))

\* a step that writes a scorecard file: get_scorecard on the round id of
\* the saved card then returns that card
SavedScorecardReadsBack ==
    saved'.scorecards # saved.scorecards =>
        get_scorecard(repo', card[1].round_id) = OkValue(Some(card[1]))

\* a step that writes a player file: get_player on the id of the saved
\* player then returns that player
SavedPlayerReadsBack ==
    saved'.players # saved.players =>
        get_player(repo', player[1].id) = OkValue(Some(player[1]))

\* C20: round trip.  save_scorecard followed by get_scorecard on the same
\* round id returns a scorecard equal to the saved one in round_id,
\* player_id, max_holes, scores and pars, whether the card is empty,
\* partial or complete; save_player followed by get_player returns a
\* player equal to the saved one in id, name and handicap.
C20_RoundTrip ==
    [][SavedScorecardReadsBack /\ SavedPlayerReadsBack]_vars

\* C26: record_score validates the hole first, then the strokes.  A call
\* whose hole is outside 1..max_holes and whose strokes are outside 1..15
\* returns InvalidHole carrying the hole and max_holes; InvalidScore is
\* returned only for a hole in range that has a par, and carries the
\* strokes, the hole and that hole's par.
C26_HoleThenStrokes ==
    (card # None /\ last.op = "record_score") =>
        /\ (/\ ~HoleInRange(last.hole, card[1].max_holes)
            /\ ~StrokesInRange(last.strokes))
           => last.result = InvalidHole(last.hole, card[1].max_holes)
        /\ last.result.kind = "InvalidScore" =>
             /\ HoleInRange(last.hole, card[1].max_holes)
             /\ last.hole \in DOMAIN card[1].pars
             /\ last.result = InvalidScore(last.strokes, last.hole,
                                           card[1].pars[last.hole])

\* a call with both arguments out of range was answered with InvalidHole
C26_Witness ==
    /\ card # None
    /\ last.op = "record_score"
    /\ last.hole = card[1].max_holes + 1
    /\ last.strokes = 16
    /\ last.result.kind = "InvalidHole"

\* the card a successful Scorecard::new has just returned
FreshCard == last.op = "new" /\ last.result.kind = "Ok"

\* C27 as claimed: right after a successful Scorecard::new, for every
\* accepted max_holes, 0 included, the scores map is empty, get_score is
\* None for every hole, is_complete() is false and total_strokes() and
\* score_relative_to_par() are None; and a complete card has at least one
\* recorded score.
C27_FreshCardIncomplete ==
    /\ FreshCard =>
         /\ card[1].scores = <<>>
         /\ \A h \in HoleInputs : get_score(card[1], h) = None
         /\ ~is_complete(card[1])
         /\ total_strokes(card[1]) = None
         /\ score_relative_to_par(card[1]) = None
    /\ (card # None /\ is_complete(card[1])) => card[1].scores # <<>>

\* C27 amended: right after a successful Scorecard::new the scores map is
\* empty and get_score is None for every hole; for max_holes >= 1
\* is_complete() is false and both totals are None; for max_holes = 0
\* is_complete() is true and both totals are Some(0).  A complete card with
\* max_holes >= 1 has at least one recorded score.
C27_FreshCardEmpty ==
    /\ FreshCard =>
         /\ card[1].scores = <<>>
         /\ \A h \in HoleInputs : get_score(card[1], h) = None
         /\ is_complete(card[1]) <=> card[1].max_holes = 0
         /\ total_strokes(card[1]) =
                IF card[1].max_holes = 0 THEN Some(0) ELSE None
         /\ score_relative_to_par(card[1]) =
                IF card[1].max_holes = 0 THEN Some(0) ELSE None
    /\ (card # None /\ is_complete(card[1]) /\ card[1].max_holes >= 1)
         => card[1].scores # <<>>

\* Scorecard::new accepted max_holes = 0 and the card is complete at once
C27_Witness ==
    /\ FreshCard
    /\ card[1].max_holes = 0
    /\ is_complete(card[1])

\* C28: for every course name and every hole count the layout
\* get_course_pars(name, holes) has a par in {3,4,5} for exactly the holes
\* 1..holes, so Scorecard::new(player_id, holes, get_course_pars(name,
\* holes)) succeeds, and record_score on any hole of 1..holes of that card
\* with strokes in range succeeds.
C28_CourseLayoutFits ==
    /\ (last.op = "create_scorecard"
           /\ last.result.kind # "PlayerNotFound") =>
         /\ DOMAIN last.pars = 1..last.max_holes
         /\ \A h \in DOMAIN last.pars : ParInRange(last.pars[h])
         /\ last.result.kind = "Ok"
    /\ last.op = "record_score" => last.result.kind = "Ok"
    /\ pc = "running"

\* every id of the model, as a player id or as a round id
AllIds == PlayerIds \cup RoundIds \cup RepoRoundIds

\* get_scorecard returns the most recently saved value of every saved
\* round id, and every listing holds exactly one record per saved round
\* id, that value
LatestScorecardsStored ==
    /\ \A id \in DOMAIN saved.scorecards :
         get_scorecard(repo, id) = OkValue(Some(saved.scorecards[id]))
    /\ \A order \in ReadDir(repo, "scorecards") :
         LET r == list_scorecards(repo, order)
         IN  /\ r.kind = "Ok"
             /\ Len(r.value) = Cardinality(DOMAIN saved.scorecards)
             /\ \A id \in DOMAIN saved.scorecards :
                  \E i \in DOMAIN r.value :
                      r.value[i] = saved.scorecards[id]
             /\ \A i, j \in DOMAIN r.value :
                  r.value[i].round_id = r.value[j].round_id => i = j

\* the same for players
LatestPlayersStored ==
    /\ \A id \in DOMAIN saved.players :
         get_player(repo, id) = OkValue(Some(saved.players[id]))
    /\ \A order \in ReadDir(repo, "players") :
         LET r == list_players(repo, order)
         IN  /\ r.kind = "Ok"
             /\ Len(r.value) = Cardinality(DOMAIN saved.players)
             /\ \A id \in DOMAIN saved.players :
                  \E i \in DOMAIN r.value : r.value[i] = saved.players[id]
             /\ \A i, j \in DOMAIN r.value :
                  r.value[i].id = r.value[j].id => i = j

\* what get_player and list_players return is what the most recent
\* save_player of each id wrote, read back from its JSON document
LatestPlayersStoredAsWritten ==
    /\ \A id \in DOMAIN saved.players :
         get_player(repo, id) =
             OkValue(Some(player_from_json(
                              player_to_json(saved.players[id]))))
    /\ \A order \in ReadDir(repo, "players") :
         LET r == list_players(repo, order)
         IN  /\ r.kind = "Ok"
             /\ Len(r.value) = Cardinality(DOMAIN saved.players)
             /\ \A i, j \in DOMAIN r.value :
                  r.value[i].id = r.value[j].id => i = j

\* C21: save overwrites by id.  After any sequence of save_scorecard
\* calls get_scorecard(id) returns the value of the most recent save for
\* that round id, and list_scorecards holds exactly one record per round
\* id ever saved, the latest value, never two records with one round id;
\* the same holds for players.
C21_SaveOverwrites == LatestScorecardsStored /\ LatestPlayersStored

\* C22: absence is not an error.  In any repository state get_player and
\* get_scorecard for an id that was never saved return Ok(None); when no
\* player was ever saved the players subdirectory is missing and
\* list_players returns an empty collection; when no scorecard was ever
\* saved the scorecards subdirectory is missing and list_scorecards and
\* get_scorecards_by_player return an empty collection.
C22_AbsenceIsNotAnError ==
    /\ \A id \in AllIds \ DOMAIN saved.players :
         get_player(repo, id) = OkValue(None)
    /\ \A id \in AllIds \ DOMAIN saved.scorecards :
         get_scorecard(repo, id) = OkValue(None)
    /\ saved.players = <<>> =>
         /\ "players" \notin repo.dirs
         /\ \A order \in ReadDir(repo, "players") :
              list_players(repo, order) = OkValue(<<>>)
    /\ saved.scorecards = <<>> =>
         /\ "scorecards" \notin repo.dirs
         /\ \A order \in ReadDir(repo, "scorecards") :
              /\ list_scorecards(repo, order) = OkValue(<<>>)
              /\ \A player_id \in AllIds :
                   get_scorecards_by_player(repo, order, player_id) =
                       OkValue(<<>>)

\* scorecards are stored, one of them damaged, and no player was ever
\* saved: the players subdirectory is missing and one round id is unused
C22_Witness ==
    /\ saved.players = <<>>
    /\ Cardinality(DOMAIN saved.scorecards) = 1
    /\ \E path \in DOMAIN repo.files : repo.files[path] = JMalformed
    /\ get_player(repo, "p1") = OkValue(None)
    /\ list_players(repo, <<>>) = OkValue(<<>>)
    /\ get_scorecard(repo, "r1") = OkValue(None)

\* a file whose record is corrupted
Malformed(self, path) ==
    exists(self, path) /\ self.files[path] \in {JMalformed, NotUtf8}

\* C23: loading corrupted persisted data returns a serialization error.
\* get_player and get_scorecard on an id whose stored record is malformed
\* return SerializationError; list_players, list_scorecards and
\* get_scorecards_by_player return SerializationError when any record of
\* the listed subdirectory is malformed, whatever the other records are.
C23_CorruptedIsSerializationError ==
    /\ \A id \in AllIds :
         /\ Malformed(repo, player_path(id)) =>
              get_player(repo, id) = SerializationError
         /\ Malformed(repo, scorecard_path(id)) =>
              get_scorecard(repo, id) = SerializationError
    /\ (\E path \in dir_entries(repo, "players") : Malformed(repo, path)) =>
         \A order \in ReadDir(repo, "players") :
             list_players(repo, order) = SerializationError
    /\ (\E path \in dir_entries(repo, "scorecards") : Malformed(repo, path))
         => \A order \in ReadDir(repo, "scorecards") :
                /\ list_scorecards(repo, order) = SerializationError
                /\ \A player_id \in AllIds :
                     get_scorecards_by_player(repo, order, player_id) =
                         SerializationError

\* the positions of a listing at which the scorecard belongs to a player
PositionsOf(scorecards, player_id) ==
    {i \in DOMAIN scorecards : scorecards[i].player_id = player_id}

\* C24: get_scorecards_by_player(player_id) returns exactly the stored
\* scorecards of that player: every returned scorecard has that
\* player_id, every scorecard of list_scorecards() with that player_id is
\* returned exactly once, and a player without scorecards gets an empty
\* collection.
C24_ByPlayerExact ==
    \A player_id \in AllIds :
        \A order, listing \in ReadDir(repo, "scorecards") :
            LET r == get_scorecards_by_player(repo, order, player_id)
                all == list_scorecards(repo, listing)
            IN  /\ r.kind = "Ok"
                /\ all.kind = "Ok"
                /\ \A j \in DOMAIN r.value :
                     r.value[j].player_id = player_id
                /\ \A i \in PositionsOf(all.value, player_id) :
                     Cardinality({j \in DOMAIN r.value :
                                     r.value[j] = all.value[i]}) = 1
                /\ PositionsOf(all.value, player_id) = {} => r.value = <<>>

\* two scorecards are stored, one of player p1 and one of player p2
C24_Witness ==
    \E order \in ReadDir(repo, "scorecards") :
        /\ Len(list_scorecards(repo, order).value) = 2
        /\ Len(get_scorecards_by_player(repo, order, "p1").value) = 1
        /\ Len(get_scorecards_by_player(repo, order, "p2").value) = 1

\* a step leaves every answer about scorecards as it was: get_scorecard of
\* every id, and list_scorecards and get_scorecards_by_player for every
\* directory order
ScorecardAnswersUnchanged ==
    /\ \A id \in AllIds : get_scorecard(repo', id) = get_scorecard(repo, id)
    /\ ReadDir(repo', "scorecards") = ReadDir(repo, "scorecards")
    /\ \A order \in ReadDir(repo, "scorecards") :
         /\ list_scorecards(repo', order) = list_scorecards(repo, order)
         /\ \A player_id \in AllIds :
              get_scorecards_by_player(repo', order, player_id) =
                  get_scorecards_by_player(repo, order, player_id)

\* a step leaves every answer about players as it was
PlayerAnswersUnchanged ==
    /\ \A id \in AllIds : get_player(repo', id) = get_player(repo, id)
    /\ ReadDir(repo', "players") = ReadDir(repo, "players")
    /\ \A order \in ReadDir(repo, "players") :
         list_players(repo', order) = list_players(repo, order)

\* C29: the repository stores a snapshot.  A record_score call on the
\* in-memory card changes no answer of get_scorecard or list_scorecards;
\* the stored record of a round id changes only in a save_scorecard call
\* for that round id, and then to the card that was saved.
C29_StoredSnapshot ==
    [][/\ (/\ card # None
           /\ card' # None
           /\ card' # card
           /\ card'[1].round_id = card[1].round_id)
          => ScorecardAnswersUnchanged
       /\ \A id \in AllIds :
            get_scorecard(repo', id) # get_scorecard(repo, id) =>
                /\ card' = card
                /\ card # None
                /\ card[1].round_id = id
                /\ get_scorecard(repo', id) = OkValue(Some(card[1]))]_vars

\* the in-memory card is complete while its stored record is still the
\* empty card that was saved
C29_Witness ==
    /\ card # None
    /\ is_complete(card[1])
    /\ get_scorecard(repo, card[1].round_id).value # None
    /\ get_scorecard(repo, card[1].round_id).value[1].scores = <<>>

\* C30: players and scorecards are independent namespaces.  save_player
\* changes no answer of get_scorecard, list_scorecards or
\* get_scorecards_by_player, and no stored player of another id;
\* save_scorecard changes no answer of get_player or list_players, and no
\* stored scorecard of another round id; also when a player id and a
\* round id are the same UUID.
C30_IndependentNamespaces ==
    [][/\ saved'.players # saved.players =>
            /\ ScorecardAnswersUnchanged
            /\ \A id \in AllIds \ {player[1].id} :
                 get_player(repo', id) = get_player(repo, id)
       /\ saved'.scorecards # saved.scorecards =>
            /\ PlayerAnswersUnchanged
            /\ \A id \in AllIds \ {card[1].round_id} :
                 get_scorecard(repo', id) = get_scorecard(repo, id)]_vars

\* a player and a scorecard are stored under the same UUID, next to
\* another player and another scorecard
C30_Witness ==
    /\ get_player(repo, "p1").value # None
    /\ get_scorecard(repo, "p1").value # None
    /\ get_player(repo, "p2").value # None
    /\ get_scorecard(repo, "r1").value # None

\* C25: two concurrent save_scorecard calls for one round id.  Neither
\* call reports the conflict (both return Ok), and once both have
\* returned the stored record is the one whose write completed last.
C25_LastCompletedWriteWins ==
    Len(finished) = 2 =>
        /\ \A w \in Writers : writers[w].result = Some(Ok)
        /\ disk # None
        /\ scorecard_from_str(disk[1]) =
               OkValue(writers[finished[2]].scorecard)

====
